---- MODULE Spec2Model ----
(***************************************************************************)
(* A model of the framing, decoding and quantizing code of the instruments *)
(* repository:                                                             *)
(*   - ProXRRelayModule.send_command        (src/proxr.py)                 *)
(*   - the min(..., key=abs(x - requested)) quantizer of the DS1000Z       *)
(*     setters                               (src/instruments.py)           *)
(*   - the block decoding of DS1000Z.take_screenshot and                   *)
(*     DS1000Z.get_waveform_samples, and the sample transform of the       *)
(*     latter                                (src/instruments.py)           *)
(* Each of the three parts has its own specification (Spec, SpecQuant,     *)
(* SpecBlock); the variables of the other parts stay unchanged in it.      *)
(* SpecTwo runs send_command for two callers that share one module;        *)
(* SpecEither runs it on a module of either transport kind; SpecReuse lets  *)
(* a caller pass the list object of its last call again.                   *)
(*                                                                         *)
(* Numbers.  Bytes are integers 0..255.  Python floats are modelled by     *)
(* exact scaled integers: the model's arithmetic is exact, so it says      *)
(* nothing about binary floating point rounding.                           *)
(***************************************************************************)
EXTENDS Integers, Sequences, FiniteSets, TLC

VARIABLES
    \* ---- ProXRRelayModule ----
    combus_type,   \* self.combus_type, set by __init__
    op,            \* the method of ProXRRelayModule the caller invoked
    cmd_arg,       \* what the list held when send_command was called
    command,       \* the caller's list object passed to send_command
    bytes_back,    \* the bytes_back argument of the call
    wire,          \* what the call has handed to combus.send / combus.write
    reads,         \* number of combus.recv / combus.read calls of the call
    data,          \* the bytes the read returned
    result,        \* how the call ended: [kind, payload]
    pc,            \* position of the call: "idle", "awaiting", "done"
    held,          \* the list object of the last call, which its caller still
                   \* holds: [op, list, bytes_back, sent, uses], or NoHeld
    \* ---- quantizer ----
    q_setter,      \* the setter (or "quantize") that ran
    q_requested,   \* the value the caller asked for
    q_candidates,  \* the candidate sequence the setter built
    q_chosen,      \* the value min(candidates, key=...) returned
    q_written,     \* the value formatted into the SCPI command
    q_outcome,     \* "written" once self.write ran, or the exception raised before
    q_env,         \* what the setter was told and read from the instrument besides
                   \* the requested value (a record), or <<>>
    \* ---- block decoding / waveform ----
    b_op,          \* "idle", "take_screenshot" or "get_waveform_samples"
    b_buff,        \* the raw buffer the instrument returned
    b_decl,        \* what the buffer was built from: [N, seed, trail, cut, field]
    b_pre,         \* the waveform preamble and timebase the instrument reported
    b_out,         \* how the call ended: [kind, block, samples, x_axis]; block is
                   \* the decoded block (decoded_block / buff) once it is sliced
    b_log,         \* SCPI commands written / asked, in order
    \* ---- two callers sharing one ProXRRelayModule ----
    c_pc,          \* position of each caller's send_command: "idle", "awaiting", "done"
    c_call,        \* the call each caller made
    c_data,        \* the bytes each caller's recv returned
    c_result,      \* how each caller's call ended
    c_from,        \* the callers whose replies the bytes in c_data belong to
    combus_out,    \* frames handed to combus.send that the board has not answered yet
    combus_in,     \* bytes the board has sent and no recv has taken yet
    \* ---- get_device_features ----
    f_answer,      \* what send_command returned to get_device_features
    f_outcome,     \* "none", "returned", or the exception the call ended with
    f_features     \* the dictionary returned: feature name -> BOOLEAN

relayVars ==
    <<combus_type, op, cmd_arg, command, bytes_back, wire, reads, data, result, pc, held>>
quantVars ==
    <<q_setter, q_requested, q_candidates, q_chosen, q_written, q_outcome, q_env>>
blockVars == <<b_op, b_buff, b_decl, b_pre, b_out, b_log>>
concVars == <<c_pc, c_call, c_data, c_result, c_from, combus_out, combus_in>>
featVars == <<f_answer, f_outcome, f_features>>
vars == <<relayVars, quantVars, blockVars, concVars, featVars>>

(***************************************************************************)
(* Helpers                                                                 *)
(***************************************************************************)
RECURSIVE SumSeq(_)
\* Python's sum() of a list of ints
SumSeq(s) ==
    IF s = <<>> THEN 0
    ELSE IF Len(s) = 1 THEN s[1]
    ELSE LET half == Len(s) \div 2
         IN  SumSeq(SubSeq(s, 1, half)) + SumSeq(SubSeq(s, half + 1, Len(s)))

RECURSIVE SeqsUpTo(_, _)
\* all sequences over S of length 0..n
SeqsUpTo(S, n) ==
    IF n = 0 THEN {<<>>}
    ELSE LET shorter == SeqsUpTo(S, n - 1)
         IN  shorter \cup {Append(s, x) : s \in {t \in shorter : Len(t) = n - 1}, x \in S}

Min(a, b) == IF a < b THEN a ELSE b
Max(a, b) == IF a > b THEN a ELSE b

\* faulty variant: the signed difference is the key
Abs_Signed(x) == x

Abs(x) == IF x < 0 THEN -x ELSE x

(***************************************************************************)
(* ProXRRelayModule                                                        *)
(***************************************************************************)

\* ---- bounds of the relay model ----
MaxCmdLen == 1        \* longest generic payload handed to send_command
MaxRespPayload == 1   \* longest payload of a device frame that is corrupted bytewise
MaxArbLen == 3        \* longest arbitrary received byte string
MaxBytesBack == 1     \* largest bytes_back of a generic send_command call

HANDSHAKE == 170      \* 0xAA, both the outbound preamble and the inbound handshake

\* __init__: the bus is a socket.socket, whose type name holds no "serial"
CombusTypeAtInit == "socket"

\* faulty variant: the checksum is taken before the two header bytes are inserted
Frame_ChecksumOmitsHeader(cmd) ==
    <<HANDSHAKE, Len(cmd)>> \o cmd \o <<SumSeq(cmd) % 256>>

\* send_command lines 19-22: the list after the two inserts and the append
Frame(cmd) ==
    LET bytes_in_packet == Len(cmd)
        withHeader == <<HANDSHAKE, bytes_in_packet>> \o cmd
    IN  Append(withHeader, SumSeq(withHeader) % 256)

\* faulty variant: bytes out of range are wrapped modulo 256, none is rejected
ByteArrayOk_Wraps(frame) == TRUE

\* bytearray(command) raises ValueError unless every element is in range(256)
ByteArrayOk(frame) == \A i \in 1..Len(frame) : frame[i] \in 0..255

\* faulty variant: the comparison admits 0
ExpectsResponse_OffByOne(bb) == bb >= 0

\* line 28: a response is read only when bytes_back > 0
ExpectsResponse(bb) == bb > 0

\* line 29: recv(bytes_back + 3) returns at most that many bytes
RecvLimit(bb) == bb + 3

\* line 30
HandshakeOk(d) == d[1] = HANDSHAKE

\* faulty variant: the three framing bytes are miscounted as two
LengthOk_OffByOne(d) == Len(d) <= 1 \/ d[2] = Len(d) - 2

\* line 31: len(data) <= 1 or ord(data[1:2]) == len(data) - 3
LengthOk(d) == Len(d) <= 1 \/ d[2] = Len(d) - 3

\* faulty variant: the loop stops one byte early, range(0, len(data) - 2)
ChecksumOk_SkipsLastPayloadByte(d) ==
    LET checksum == SumSeq([i \in 1..(Len(d) - 2) |-> d[i]])
    IN  checksum % 256 = d[Len(d)]

\* lines 32-35: the sum of all bytes but the last, & 255, against the last byte
ChecksumOk(d) ==
    LET checksum == SumSeq([i \in 1..(Len(d) - 1) |-> d[i]])
    IN  checksum % 256 = d[Len(d)]

\* faulty variant: the loop runs to len(data), taking the checksum byte along
PayloadOf_IncludesChecksum(d) == [i \in 1..(Len(d) - 2) |-> d[i + 2]]

\* lines 37-39: the bytes at Python positions 2 .. len(data)-2
PayloadOf(d) == [i \in 1..(Len(d) - 3) |-> d[i + 2]]

NoResult == [kind |-> "pending", payload |-> <<>>]
Returned(p) == [kind |-> "payload", payload |-> p]
ReturnedNone == [kind |-> "none", payload |-> <<>>]
\* faulty variant: an exception is swallowed and the call returns None
Raised_AsNone(e) == ReturnedNone
Raised(e) == [kind |-> e, payload |-> <<>>]

\* faulty variant: a frame shorter than the bytes_back + 3 asked for is rejected
Validate_RequiresFullRead(d) ==
    IF d = <<>> THEN Raised("IndexError")
    ELSE IF HandshakeOk(d) /\ LengthOk(d) /\ ChecksumOk(d) /\ Len(d) = RecvLimit(bytes_back)
         THEN Returned(PayloadOf(d))
         ELSE ReturnedNone

\* lines 30-42 on a non-empty data; data[0] of an empty data raises IndexError
Validate(d) ==
    IF d = <<>> THEN Raised("IndexError")
    ELSE IF HandshakeOk(d) /\ LengthOk(d) /\ ChecksumOk(d)
         THEN Returned(PayloadOf(d))
         ELSE ReturnedNone

\* ---- the calls the model makes ----
Devices == {0, 1}
\* the wrappers that pass bytes_back = 0 (lines 382-408)
WriteOnlyCalls ==
    {[op |-> "enable_all_devices", command |-> <<254, 248>>, bytes_back |-> 0],
     [op |-> "disable_all_devices", command |-> <<254, 249>>, bytes_back |-> 0]}
    \cup {[op |-> "enable_device", command |-> <<254, 250, d>>, bytes_back |-> 0] : d \in Devices}
    \cup {[op |-> "disable_device", command |-> <<254, 251, d>>, bytes_back |-> 0] : d \in Devices}
    \cup {[op |-> "enable_device_only", command |-> <<254, 252, d>>, bytes_back |-> 0] : d \in Devices}
    \cup {[op |-> "disable_device_only", command |-> <<254, 253, d>>, bytes_back |-> 0] : d \in Devices}
    \cup {[op |-> "store_device_number", command |-> <<254, 255, d>>, bytes_back |-> 0] : d \in Devices}

\* wrappers that expect a response
ReadingCalls ==
    {[op |-> "reset", command |-> <<254, 50, 144>>, bytes_back |-> 1],
     [op |-> "get_testcyle_value", command |-> <<254, 50, 145>>, bytes_back |-> 4],
     [op |-> "get_device_features", command |-> <<254, 53, 243, 4>>, bytes_back |-> 8],
     [op |-> "set_all_relays_by_bank", command |-> <<254, 140, 85, 1>>, bytes_back |-> 1]}

\* send_command called directly with a short payload, in or out of byte range
CmdBytes == {-1, 254, 256}
DirectCalls ==
    {[op |-> "send_command", command |-> c, bytes_back |-> bb] :
        c \in SeqsUpTo(CmdBytes, MaxCmdLen), bb \in 0..MaxBytesBack}

\* send_command called directly with the longest payload whose length fits
\* the length byte, and with one byte more
LongLens == {255, 256}
LongCalls ==
    {[op |-> "send_command", command |-> [i \in 1..n |-> 254], bytes_back |-> bb] :
        n \in LongLens, bb \in {0, 255}}

Calls == WriteOnlyCalls \cup ReadingCalls \cup DirectCalls \cup LongCalls

\* ---- the bytes the device may answer ----
RespBytes == {1, 85}
ArbBytes == {0, 85, 170}
\* a frame as the board sends it: [0xAA, len(payload), payload..., checksum]
DeviceFrame(p) ==
    <<HANDSHAKE, Len(p)>> \o p \o <<(HANDSHAKE + Len(p) + SumSeq(p)) % 256>>
DeviceFrames == {DeviceFrame(p) : p \in SeqsUpTo(RespBytes, MaxRespPayload + 1)}
\* every single-byte replacement (the identity included) of a short device frame
CorruptedFrames ==
    UNION {{[f EXCEPT ![i] = v] : i \in 1..Len(f), v \in 0..255} :
            f \in {DeviceFrame(p) : p \in SeqsUpTo(RespBytes, MaxRespPayload)}}
ArbResponses == SeqsUpTo(ArbBytes, MaxArbLen) \ {<<>>}
\* the five device-id bytes the board answers to get_device_features
FeatureFrames == {DeviceFrame(<<b, 0, 0, 0, 0>>) : b \in RespBytes}
Responses == DeviceFrames \cup CorruptedFrames \cup ArbResponses \cup FeatureFrames

\* ---- bound of the reuse of one list object ----
MaxReuse == 1      \* most further calls made with the list of an earlier call

\* the caller holds no list of an earlier call
NoHeld == [op |-> "none", list |-> <<>>, bytes_back |-> 0, sent |-> <<>>, uses |-> 0]

RelayInit ==
    /\ combus_type = CombusTypeAtInit
    /\ op = "none"
    /\ cmd_arg = <<>>
    /\ command = <<>>
    /\ bytes_back = 0
    /\ wire = <<>>
    /\ reads = 0
    /\ data = <<>>
    /\ result = NoResult
    /\ pc = "idle"
    /\ held = NoHeld

\* send_command up to its first read (or to its return when it reads nothing)
SendCommand(call) ==
    /\ pc = "idle"
    /\ op' = call.op
    /\ bytes_back' = call.bytes_back
    /\ cmd_arg' = call.command
    /\ command' = Frame(call.command)
    /\ data' = <<>>
    /\ UNCHANGED <<combus_type, quantVars, blockVars, concVars, featVars>>
    /\ IF combus_type = "serial"
       THEN \* line 24-25: write the list, then read(bytes_back)
            /\ wire' = <<Frame(call.command)>>
            /\ reads' = 0
            /\ result' = NoResult
            /\ pc' = "awaiting"
       ELSE IF ~ByteArrayOk(Frame(call.command))
       THEN \* line 27: bytearray() raises before anything is sent
            /\ wire' = <<>>
            /\ reads' = 0
            /\ result' = Raised("ValueError")
            /\ pc' = "done"
       ELSE /\ wire' = <<Frame(call.command)>>
            /\ reads' = 0
            /\ IF ExpectsResponse(call.bytes_back)
               THEN result' = NoResult /\ pc' = "awaiting"
               ELSE result' = Returned(<<>>) /\ pc' = "done"   \* line 44

\* faulty variant: a rejected frame makes the call send its frame once more
\* and read again
Recv_RetriesOnReject(d) ==
    /\ pc = "awaiting"
    /\ reads' = reads + 1
    /\ data' = d
    /\ Len(d) <= RecvLimit(bytes_back)
    /\ IF Validate(d) = ReturnedNone /\ Len(wire) < 2
       THEN wire' = Append(wire, command) /\ pc' = "awaiting" /\ result' = NoResult
       ELSE wire' = wire /\ pc' = "done" /\ result' = Validate(d)
    /\ UNCHANGED <<combus_type, op, cmd_arg, command, bytes_back, held>>
    /\ UNCHANGED <<quantVars, blockVars, concVars, featVars>>

\* line 29 (socket) / line 25 (serial): the read returns d
Recv(d) ==
    /\ pc = "awaiting"
    /\ reads' = reads + 1
    /\ data' = d
    /\ pc' = "done"
    /\ IF combus_type = "serial"
       THEN /\ Len(d) <= bytes_back
            /\ result' = [kind |-> "raw", payload |-> d]
       ELSE /\ Len(d) <= RecvLimit(bytes_back)
            /\ result' = Validate(d)
    /\ UNCHANGED <<combus_type, op, cmd_arg, command, bytes_back, wire, held>>
    /\ UNCHANGED <<quantVars, blockVars, concVars, featVars>>

\* line 29: nothing arrives within the 0.5 s set by settimeout: recv raises socket.timeout
RecvTimeout ==
    /\ pc = "awaiting"
    /\ combus_type = "socket"
    /\ reads' = reads + 1
    /\ data' = <<>>
    /\ result' = Raised("socket.timeout")
    /\ pc' = "done"
    /\ UNCHANGED <<combus_type, op, cmd_arg, command, bytes_back, wire, held>>
    /\ UNCHANGED <<quantVars, blockVars, concVars, featVars>>

\* the caller has the result; the next call may start
Return ==
    /\ pc = "done"
    /\ pc' = "idle"
    /\ op' = "none"
    /\ cmd_arg' = <<>>
    /\ command' = <<>>
    /\ bytes_back' = 0
    /\ wire' = <<>>
    /\ reads' = 0
    /\ data' = <<>>
    /\ result' = NoResult
    /\ held' = [op |-> op, list |-> command, bytes_back |-> bytes_back,
                sent |-> IF held = NoHeld THEN wire ELSE held.sent, uses |-> held.uses]
    /\ UNCHANGED <<combus_type, quantVars, blockVars, concVars, featVars>>

\* a caller invokes one of the wrappers, or send_command itself, with a list
\* it has just built
Call == pc = "idle" /\ held' = NoHeld /\ \E call \in Calls : SendCommand(call)

\* the caller passes the list object of its last call to send_command once
\* more: lines 19-22 work on that object as the last call left it
CallAgain ==
    /\ pc = "idle"
    /\ held # NoHeld
    /\ held.uses < MaxReuse
    /\ held' = [held EXCEPT !.uses = @ + 1]
    /\ SendCommand([op |-> held.op, command |-> held.list, bytes_back |-> held.bytes_back])

\* the peer sends back the very frame it was sent
Echoes == {wire[i] : i \in 1..Len(wire)}

\* the transport delivers some bytes, or none because the peer closed
Receive == pc = "awaiting" /\ \E d \in Responses \cup {<<>>} \cup Echoes : Recv(d)

(***************************************************************************)
(* The quantizer of the DS1000Z setters                                    *)
(*                                                                         *)
(* Units: set_averages counts are integers; probe ratios are in 1/100;     *)
(* channel scales are in 1e-5 V (base scale list in 1e-3 V times the probe *)
(* ratio in 1/100).                                                        *)
(***************************************************************************)

\* ---- bounds of the quantizer model ----
MaxCands == 3      \* longest candidate sequence handed to the quantizer directly
MaxOffset == 1     \* requests lie within this distance of a candidate or a midpoint

RECURSIVE MinByKeyFrom(_, _, _, _)
\* faulty variant: a later candidate at the same distance replaces the earlier one
MinByKeyFrom_LastWins(C, x, i, best) ==
    IF i > Len(C) THEN best
    ELSE MinByKeyFrom(C, x, i + 1, IF Abs(C[i] - x) <= Abs(best - x) THEN C[i] ELSE best)

\* Python's min(C, key=...): scan in order, replace only on a strictly smaller key
MinByKeyFrom(C, x, i, best) ==
    IF i > Len(C) THEN best
    ELSE MinByKeyFrom(C, x, i + 1, IF Abs(C[i] - x) < Abs(best - x) THEN C[i] ELSE best)

\* min(candidates, key=lambda c: abs(c - requested)) on a non-empty sequence
Quantize(x, C) == MinByKeyFrom(C, x, 2, C[1])

\* set_averages line 121
possible_counts == <<2, 4, 8, 16, 32, 64, 128, 256, 512, 1024>>

\* set_probe_ratio lines 383-400, in 1/100
probe_ratios ==
    <<1, 2, 5, 10, 20, 50, 100, 200, 500, 1000, 2000, 5000, 10000, 20000, 50000, 100000>>

\* set_channel_scale line 366, in 1e-3 V
base_scales == <<1, 2, 5, 1000, 2000, 5000, 10000, 20000, 50000>>

\* set_channel_scale lines 364-367: every base scale times the probe ratio
possible_scales(ratio) == [i \in 1..Len(base_scales) |-> base_scales[i] * ratio]

\* the probe ratios the instrument may report to get_probe_ratio
ReportedRatios == {100, 1000}

\* requests near the candidates: each candidate, each midpoint of two
\* neighbours, and the values up to MaxOffset away from those
RequestsNear(C) ==
    LET marks == {C[i] : i \in 1..Len(C)}
                 \cup {(C[i] + C[i + 1]) \div 2 : i \in 1..(Len(C) - 1)}
    IN  {m + d : m \in marks, d \in (-MaxOffset)..MaxOffset}

\* candidate sequences handed to the quantizer directly: unsorted and with
\* repeats as well
CandVals == {1, 3, 5}
CandidateSeqs == SeqsUpTo(CandVals, MaxCands) \ {<<>>}

\* the quantizing step of a setter followed by its self.write
QuantizeAndWrite(setter, x, C) ==
    /\ q_setter' = setter
    /\ q_requested' = x
    /\ q_candidates' = C
    /\ q_chosen' = Quantize(x, C)
    /\ q_written' = Quantize(x, C)
    /\ q_outcome' = "written"
    /\ q_env' = <<>>
    /\ UNCHANGED <<relayVars, blockVars, concVars, featVars>>

\* set_averages(count)
set_averages ==
    /\ q_setter = "none"
    /\ \E count \in RequestsNear(possible_counts) :
          QuantizeAndWrite("set_averages", count, possible_counts)

\* set_probe_ratio(probe_ratio, channel)
set_probe_ratio ==
    /\ q_setter = "none"
    /\ \E probe_ratio \in RequestsNear(probe_ratios) :
          QuantizeAndWrite("set_probe_ratio", probe_ratio, probe_ratios)

\* set_channel_scale(scale, channel) for a CHANn channel
set_channel_scale ==
    /\ q_setter = "none"
    /\ \E ratio \in ReportedRatios :
          \E scale \in RequestsNear(possible_scales(ratio)) :
              QuantizeAndWrite("set_channel_scale", scale, possible_scales(ratio))

\* set_channel_range line 316, in units of 0.008 V
base_ranges == <<1, 2, 5, 10, 20, 50, 100, 200, 500, 1000, 2000, 5000, 10000>>

\* val ** ratio (line 315) for val = k * 0.008 V and a probe ratio of 1 or 2,
\* in units of 0.000064 V (0.008 ** 2): k * 0.008 is 125 * k units, and
\* (k * 0.008) ** 2 is k * k units
RangePower(k, ratio) == IF ratio = 1 THEN 125 * k ELSE k * k

\* lines 314-317: every base range raised to the power of the probe ratio
possible_ranges(ratio) == [i \in 1..Len(base_ranges) |-> RangePower(base_ranges[i], ratio)]

\* the probe ratios the channels may have when set_channel_range asks
RangeRatios == {1, 2}
RangeChannels == {1, 2}

\* set_channel_range(range, channel): get_probe_ratio() on line 315 is called
\* without the channel, so it asks for the ratio of its default, channel 1
set_channel_range ==
    /\ q_setter = "none"
    /\ \E channel \in RangeChannels, ratio \in [RangeChannels -> RangeRatios] :
          LET C == possible_ranges(ratio[1])
          IN  \E range \in RequestsNear(C) \cup RequestsNear(possible_ranges(1)) :
                /\ q_setter' = "set_channel_range"
                /\ q_requested' = range
                /\ q_candidates' = C
                /\ q_chosen' = Quantize(range, C)
                /\ q_written' = Quantize(range, C)
                /\ q_outcome' = "written"
                /\ q_env' = [channel |-> channel, ratio |-> ratio]
    /\ UNCHANGED <<relayVars, blockVars, concVars, featVars>>

\* faulty variant: two shown channels get the list of three and four
possible_memory_depths_TwoAsMany(num_channels_shown) ==
    IF num_channels_shown <= 1 THEN <<12000, 120000, 1200000, 12000000>>
    ELSE <<3000, 30000, 300000, 3000000>>

\* set_memory_depth lines 146-151
possible_memory_depths(num_channels_shown) ==
    IF num_channels_shown <= 1 THEN <<12000, 120000, 1200000, 12000000>>
    ELSE IF num_channels_shown <= 2 THEN <<6000, 60000, 600000, 6000000>>
    ELSE <<3000, 30000, 300000, 3000000>>

\* num_channels_shown() counts the shown ones of the channels 1..4
ShownCounts == 0..4

\* the memory_depth argument: a number near some candidate, or a string
DepthRequests ==
    {[numeric |-> TRUE, value |-> v] :
        v \in UNION {RequestsNear(possible_memory_depths(n)) : n \in ShownCounts}}
    \cup {[numeric |-> FALSE, value |-> v] : v \in {"AUTO", "MAX"}}

\* set_memory_depth(memory_depth), lines 143-159
set_memory_depth ==
    /\ q_setter = "none"
    /\ \E running \in BOOLEAN, n \in ShownCounts, memory_depth \in DepthRequests :
          LET C == possible_memory_depths(n)
          IN  /\ q_setter' = "set_memory_depth"
              /\ q_requested' = memory_depth.value
              /\ q_env' = [running |-> running, num_channels_shown |-> n,
                           numeric |-> memory_depth.numeric]
              /\ IF ~running                        \* line 143: assert self.is_running()
                 THEN /\ q_outcome' = "AssertionError"
                      /\ q_candidates' = <<>> /\ q_chosen' = 0 /\ q_written' = 0
                 ELSE IF memory_depth.numeric        \* lines 144-154
                 THEN /\ q_outcome' = "written"
                      /\ q_candidates' = C
                      /\ q_chosen' = Quantize(memory_depth.value, C)
                      /\ q_written' = Quantize(memory_depth.value, C)
                 ELSE IF memory_depth.value = "AUTO" \* lines 155-156, 159
                 THEN /\ q_outcome' = "written"
                      /\ q_candidates' = <<>> /\ q_chosen' = 0 /\ q_written' = "AUTO"
                 ELSE /\ q_outcome' = "ValueError"   \* line 158
                      /\ q_candidates' = <<>> /\ q_chosen' = 0 /\ q_written' = 0
    /\ UNCHANGED <<relayVars, blockVars, concVars, featVars>>

\* the quantizer on an arbitrary non-empty candidate sequence
quantize ==
    /\ q_setter = "none"
    /\ \E C \in CandidateSeqs :
          \E x \in RequestsNear(C) :
              QuantizeAndWrite("quantize", x, C)

RECURSIVE Pow10(_)
Pow10(e) == IF e = 0 THEN 1 ELSE 10 * Pow10(e - 1)

\* Times from 1e-9 s to 5 s do not fit one integer unit within 32 bits, so a
\* grid value base * 10 ** exp is kept as the pair [base, exp], exp counted
\* from 1e-9 s (exp = 0 is 10 ** -9), until the candidate list is filtered.
\* p >= t for two such pairs with one-digit bases
AtLeast(p, t) ==
    IF p.exp >= t.exp
    THEN p.base * Pow10(Min(p.exp - t.exp, 1)) >= t.base
    ELSE p.base >= t.base * Pow10(Min(t.exp - p.exp, 1))

\* base * 10 ** exp for base in [1, 2, 5] for exp in range(-9, 1): all powers
\* for base 1, then for base 2, then for base 5 (lines 2161-2163)
timebase_grid ==
    [k \in 1..30 |-> [base |-> <<1, 2, 5>>[((k - 1) \div 10) + 1], exp |-> (k - 1) % 10]]

\* a grid value of at least 5e-9 s in units of 5e-9 s
InUnitsOf5ns(p) == IF p.base = 5 THEN Pow10(p.exp) ELSE 2 * p.base * Pow10(p.exp - 1)

\* set_timebase_scale lines 2160-2172, in units of 5e-9 s: the grid values
\* >= 5e-9 s in mode MAIN, >= 200e-3 s in mode ROLL
timebase_scales(timebase_mode) ==
    LET AtLeast5ns(p) == AtLeast(p, [base |-> 5, exp |-> 0])
        AtLeast200ms(p) == AtLeast(p, [base |-> 2, exp |-> 8])
        kept == IF timebase_mode = "MAIN" THEN SelectSeq(timebase_grid, AtLeast5ns)
                ELSE SelectSeq(timebase_grid, AtLeast200ms)
    IN  [i \in 1..Len(kept) |-> InUnitsOf5ns(kept[i])]

\* the timebase modes in which set_timebase_scale builds a candidate list
QuantizingModes == {"MAIN", "ROLL"}

\* the modes set_timebase_mode accepts (line 2186) and get_timebase_mode reports
TimebaseModes == {"MAIN", "XY", "ROLL"}

\* faulty variant: the second branch is an else, taken in every mode but MAIN
BindsPossibleScales_ElseRoll(timebase_mode) == TRUE

\* lines 2159 and 2166: possible_scales is bound in the if and the elif branch only
BindsPossibleScales(timebase_mode) == timebase_mode \in QuantizingModes

\* set_timebase_scale(scale), lines 2158-2174
set_timebase_scale ==
    /\ q_setter = "none"
    /\ \E timebase_mode \in TimebaseModes :
          \E scale \in RequestsNear(timebase_scales("MAIN")) :
              /\ q_setter' = "set_timebase_scale"
              /\ q_requested' = scale
              /\ q_env' = [timebase_mode |-> timebase_mode]
              /\ IF BindsPossibleScales(timebase_mode)
                 THEN LET C == timebase_scales(timebase_mode)
                      IN  /\ q_candidates' = C
                          /\ q_chosen' = Quantize(scale, C)
                          /\ q_written' = Quantize(scale, C)       \* line 2174
                          /\ q_outcome' = "written"
                 ELSE \* line 2173 reads the unbound local possible_scales
                      /\ q_candidates' = <<>> /\ q_chosen' = 0 /\ q_written' = 0
                      /\ q_outcome' = "UnboundLocalError"
    /\ UNCHANGED <<relayVars, blockVars, concVars, featVars>>

\* j * 10 ** i for i in range(-9, 1) for j in [1, 2, 5]: 1, 2, 5 for each
\* power in turn (lines 2122-2124)
delay_grid ==
    [k \in 1..30 |-> [base |-> <<1, 2, 5>>[((k - 1) % 3) + 1], exp |-> (k - 1) \div 3]]

\* set_timebase_delay_scale lines 2121-2126, in 1e-9 s: the grid values
\* between 2 / sample_rate and the main timebase scale
delay_scales(min_scale, timebase_scale) ==
    LET InWindow(p) == AtLeast(p, min_scale) /\ AtLeast(timebase_scale, p)
        kept == SelectSeq(delay_grid, InWindow)
    IN  [i \in 1..Len(kept) |-> kept[i].base * Pow10(kept[i].exp)]

\* what the instrument reports to get_sample_rate, as 2 / sample_rate
\* (2e-9 s at 1 GSa/s, 4e-9 s at 500 MSa/s), and to get_timebase_scale
\* (1e-7 s, 1e-6 s)
ReportedMinScales == {[base |-> 2, exp |-> 0], [base |-> 4, exp |-> 0]}
ReportedTimebaseScales == {[base |-> 1, exp |-> 2], [base |-> 1, exp |-> 3]}

\* set_timebase_delay_scale(scale): line 2127 computes the nearest candidate
\* and drops it; line 2128 formats the argument
set_timebase_delay_scale ==
    /\ q_setter = "none"
    /\ \E min_scale \in ReportedMinScales, timebase_scale \in ReportedTimebaseScales :
          LET C == delay_scales(min_scale, timebase_scale)
          IN  \E scale \in RequestsNear(C) :
                /\ q_setter' = "set_timebase_delay_scale"
                /\ q_requested' = scale
                /\ q_candidates' = C
                /\ q_chosen' = Quantize(scale, C)
                /\ q_written' = scale
                /\ q_outcome' = "written"
                /\ q_env' = <<>>
    /\ UNCHANGED <<relayVars, blockVars, concVars, featVars>>

\* the setter has returned; the next one may be called
QuantReturn ==
    /\ q_setter # "none"
    /\ q_setter' = "none"
    /\ q_requested' = 0
    /\ q_candidates' = <<>>
    /\ q_chosen' = 0
    /\ q_written' = 0
    /\ q_outcome' = "none"
    /\ q_env' = <<>>
    /\ UNCHANGED <<relayVars, blockVars, concVars, featVars>>

QuantNext ==
    \/ set_averages
    \/ set_probe_ratio
    \/ set_channel_scale
    \/ set_channel_range
    \/ set_memory_depth
    \/ set_timebase_scale
    \/ set_timebase_delay_scale
    \/ quantize
    \/ QuantReturn


(***************************************************************************)
(* Block decoding in DS1000Z.take_screenshot and get_waveform_samples, and *)
(* the sample transform of get_waveform_samples                            *)
(*                                                                         *)
(* Units: y_increment is in 1/100 (0.04 is 4), so sample values are in     *)
(* 1/100; x-axis values are in 1/10 of the unit of timebase_scale and      *)
(* timebase_offset, which makes i * timebase_scale / 10.0 + timebase_offset *)
(* the integer i * timebase_scale + 10 * timebase_offset.                  *)
(***************************************************************************)

\* ---- bounds of the block model ----
MaxTrail == 1      \* most terminator bytes after the payload
MaxCut == 2        \* most bytes missing from the end of a truncated reply

SCREENSHOT_READ_MAX == 100000   \* read_raw(100000) in take_screenshot

\* a Python slice bound k on a sequence of length n: negative counts from the end
PyIndex(n, k) == IF k < 0 THEN Max(n + k, 0) ELSE Min(k, n)

\* Python's s[a:b] (0-based, end exclusive, clamped)
PySlice(s, a, b) ==
    LET lo == PyIndex(Len(s), a)
        hi == PyIndex(Len(s), b)
    IN  IF hi <= lo THEN <<>> ELSE SubSeq(s, lo + 1, hi)

IsDigit(b) == b \in 48..57
\* the ASCII characters int() strips as whitespace
IsSpace(b) == b \in (9..13) \cup (28..32)

RECURSIVE StripLeft(_)
StripLeft(s) == IF s # <<>> /\ IsSpace(s[1]) THEN StripLeft(Tail(s)) ELSE s
RECURSIVE StripRight(_)
StripRight(s) ==
    IF s # <<>> /\ IsSpace(s[Len(s)]) THEN StripRight(SubSeq(s, 1, Len(s) - 1)) ELSE s

\* digits, with single underscores allowed between two digits
ValidDigits(s) ==
    /\ s # <<>>
    /\ IsDigit(s[1]) /\ IsDigit(s[Len(s)])
    /\ \A i \in 1..Len(s) :
          IsDigit(s[i]) \/ (s[i] = 95 /\ IsDigit(s[i - 1]) /\ IsDigit(s[i + 1]))

RECURSIVE DigitsValue(_, _)
DigitsValue(s, acc) ==
    IF s = <<>> THEN acc
    ELSE DigitsValue(Tail(s), IF s[1] = 95 THEN acc ELSE 10 * acc + (s[1] - 48))

\* Python's int(str) in base 10 on ASCII text: [ok, value]
PyInt(s) ==
    LET t == StripRight(StripLeft(s))
        signed == t # <<>> /\ t[1] \in {43, 45}
        body == IF signed THEN Tail(t) ELSE t
        sign == IF signed /\ t[1] = 45 THEN -1 ELSE 1
    IN  IF ValidDigits(body)
        THEN [ok |-> TRUE, value |-> sign * DigitsValue(body, 0)]
        ELSE [ok |-> FALSE, value |-> 0]

BlockFail(e) == [kind |-> e, block |-> <<>>]
BlockOk(b) == [kind |-> "ok", block |-> b]

\* faulty variant: the marker byte is not counted
HeaderBytes_OffByOne(L) == L + 1

\* int(chr(buff[1])) + 2
HeaderBytes(L) == L + 2

\* lines 626-628 and 2707-2709: the header arithmetic and the slice
DecodeBlock(buff) ==
    IF Len(buff) < 2 THEN BlockFail("IndexError")                \* buff[1]
    ELSE IF ~IsDigit(buff[2]) THEN BlockFail("ValueError")       \* int(chr(buff[1]))
    ELSE LET n_header_bytes == HeaderBytes(buff[2] - 48)
             field == PySlice(buff, 2, n_header_bytes)
         IN  IF \E i \in 1..Len(field) : field[i] >= 128
             THEN BlockFail("UnicodeDecodeError")                 \* .decode("ascii")
             ELSE IF ~PyInt(field).ok THEN BlockFail("ValueError")
             ELSE LET n_data_bytes == PyInt(field).value
                  IN  BlockOk(PySlice(buff, n_header_bytes, n_header_bytes + n_data_bytes))

\* faulty variant: fewer bytes than the preamble announced are let through
PointsOk_AtLeast(n, points) == n <= points

\* line 2710: assert len(buff) == points
PointsOk(n, points) == n = points

\* faulty variant: the reference is added instead of subtracted
ToPhysical_AddsReference(sample, pre) ==
    (sample - pre.y_origin + pre.y_reference) * pre.y_increment

\* line 2713: (sample - y_origin - y_reference) * y_increment
ToPhysical(sample, pre) == (sample - pre.y_origin - pre.y_reference) * pre.y_increment

\* a list comprehension's result as a list (a tuple, not a function, to TLC)
AsList(f) == SubSeq(f, 1, Len(f))

\* lines 2711-2714: struct.unpack of n unsigned bytes, then the transform of each
Samples(block, pre) == AsList([i \in 1..Len(block) |-> ToPhysical(block[i], pre)])

\* faulty variant: -n // 2 rounded towards zero, as a truncating division does
XAxis_TruncatingStart(n, timebase_scale, timebase_offset) ==
    LET start == -(n \div 2)
        stop == n \div 2
    IN  SubSeq([k \in 1..Max(stop - start, 0) |->
                    (start + k - 1) * timebase_scale + 10 * timebase_offset],
               1, Max(stop - start, 0))

\* faulty variant: the index range is shifted up by one, range(-n // 2 + 1, n // 2 + 1)
XAxis_ShiftedUp(n, timebase_scale, timebase_offset) ==
    LET start == ((-n) \div 2) + 1
        stop == (n \div 2) + 1
    IN  SubSeq([k \in 1..Max(stop - start, 0) |->
                    (start + k - 1) * timebase_scale + 10 * timebase_offset],
               1, Max(stop - start, 0))

\* lines 2717-2720, in tenths: i * timebase_scale / 10.0 + timebase_offset for
\* i in range(-n // 2, n // 2); the k-th i of the range is start + k - 1
XAxis(n, timebase_scale, timebase_offset) ==
    LET start == (-n) \div 2
        stop == n \div 2
    IN  AsList([k \in 1..Max(stop - start, 0) |->
                    (start + k - 1) * timebase_scale + 10 * timebase_offset])

\* ---- what the instrument may answer ----
RECURSIVE Digits(_)
\* the ASCII decimal digits of n >= 0
Digits(n) == IF n < 10 THEN <<48 + n>> ELSE Append(Digits(n \div 10), 48 + (n % 10))

\* a payload of n bytes whose content depends on the position
Pay(n, seed) == [i \in 1..n |-> (seed + 7 * i) % 256]

\* the length field of a reply that carries N payload bytes: the digits of N,
\* or one of the forms a faulty sender may put there
FieldForms == {"plus", "space", "minus", "underscore", "letter", "high", "empty"}
LengthField(d) ==
    CASE d.field = "digits"     -> Digits(d.N)
      [] d.field = "plus"       -> <<43>> \o Digits(d.N)                \* "+9"
      [] d.field = "space"      -> <<32>> \o Digits(d.N)                \* " 9"
      [] d.field = "minus"      -> <<45>> \o Digits(d.N)                \* "-9"
      [] d.field = "underscore" -> <<48, 95>> \o Digits(d.N)            \* "0_9"
      [] d.field = "letter"     -> Digits(d.N) \o <<120>>               \* "9x"
      [] d.field = "high"       -> Digits(d.N) \o <<200>>               \* not ASCII
      [] d.field = "empty"      -> <<>>                                 \* "#0"

\* '#' + L + the L bytes of the length field + payload + trail terminator
\* bytes ("\n"), its last cut bytes missing
BlockReply(d) ==
    LET full == <<35, 48 + Len(LengthField(d))>> \o LengthField(d) \o Pay(d.N, d.seed)
                    \o [i \in 1..d.trail |-> 10]
    IN  SubSeq(full, 1, Len(full) - d.cut)

SmallLens == {0, 1, 9, 10, 1199, 1200}
BigLens == {1000000}
Seeds == {3}

\* payload lengths sent behind a length field that is not the digits of N
OddFieldLens == {9, 10}

\* complete replies, with and without terminator, truncated replies, and
\* complete replies whose length field is not plain digits; the
\* one-million-byte payload is only sent complete
ReplyDecls ==
    {[N |-> n, seed |-> sd, trail |-> t, cut |-> 0, field |-> "digits"] :
        n \in SmallLens \cup BigLens, sd \in Seeds, t \in 0..MaxTrail}
    \cup {d \in {[N |-> n, seed |-> sd, trail |-> 0, cut |-> c, field |-> "digits"] :
                    n \in SmallLens, sd \in Seeds, c \in 1..MaxCut} :
            d.cut <= 3 + d.N}
    \cup {[N |-> n, seed |-> sd, trail |-> 0, cut |-> 0, field |-> f] :
            n \in OddFieldLens, sd \in Seeds, f \in FieldForms}

\* the y parameters of the preamble (y_increment in 1/100)
YParams ==
    {[y_increment |-> yi, y_origin |-> yo, y_reference |-> yr] :
        yi \in {4, 1}, yo \in {0, 3}, yr \in {0, 127}}
DefaultY == [y_increment |-> 4, y_origin |-> 0, y_reference |-> 0]
Timebases == {[scale |-> 1, offset |-> 0], [scale |-> 5, offset |-> -3]}
DefaultTimebase == [scale |-> 1, offset |-> 0]

\* what the instrument answers during one get_waveform_samples: the reply to
\* :WAV:DATA?, the preamble and the timebase.  The point count of the preamble
\* is the declared length or one off it.
WaveAnswers ==
    {[decl |-> d, points |-> d.N + dp, y |-> y, timebase |-> tb] :
        d \in {e \in ReplyDecls : e.N \in SmallLens}, dp \in {-1, 0, 1},
        y \in YParams, tb \in Timebases}
    \cup {[decl |-> d, points |-> d.N + dp, y |-> DefaultY, timebase |-> DefaultTimebase] :
        d \in {e \in ReplyDecls : e.N \in BigLens}, dp \in {-1, 0}}

ChannelName == [c \in 1..4 |-> <<"CHAN1", "CHAN2", "CHAN3", "CHAN4">>[c]]
Channels == {1}

NoBlockOut == [kind |-> "none", block |-> <<>>, samples |-> <<>>, x_axis |-> <<>>]

\* take_screenshot, lines 624-632
take_screenshot ==
    /\ b_op = "idle"
    /\ \E d \in ReplyDecls :
          LET buff == PySlice(BlockReply(d), 0, SCREENSHOT_READ_MAX)   \* read_raw(100000)
              dec == DecodeBlock(buff)
          IN  /\ b_op' = "take_screenshot"
              /\ b_decl' = d
              /\ b_buff' = buff
              /\ b_pre' = <<>>
              /\ b_log' = << <<":DISPlay:DATA?", "ON,OFF,PNG">> >>
              /\ b_out' = IF dec.kind = "ok"
                          THEN \* Image.open(io.BytesIO(decoded_block))
                               [NoBlockOut EXCEPT !.kind = "image_open", !.block = dec.block]
                          ELSE [NoBlockOut EXCEPT !.kind = dec.kind]
    /\ UNCHANGED <<relayVars, quantVars, concVars, featVars>>

\* faulty variant: the read window is set before the preamble is queried
WaveformCommands_WindowFirst(channel) ==
    << <<":WAV:SOUR", ChannelName[channel]>>, <<":WAV:FORM", "BYTE">>,
       <<":WAV:STAR", "1">>, <<":WAV:STOP", "1200">>,
       <<":WAV:PRE?", "">>, <<":WAV:DATA?", "">>,
       <<":TIMebase:MAIN:SCALe?", "">>, <<":TIMebase:MAIN:OFFSet?", "">> >>

\* the commands of get_waveform_samples in the order of its statements:
\* lines 2690, 2691, 2703, 2704, 2705, 2706, 2715, 2716
WaveformCommands(channel) ==
    << <<":WAV:SOUR", ChannelName[channel]>>, <<":WAV:FORM", "BYTE">>,
       <<":WAV:PRE?", "">>, <<":WAV:STAR", "1">>,
       <<":WAV:STOP", "1200">>, <<":WAV:DATA?", "">>,
       <<":TIMebase:MAIN:SCALe?", "">>, <<":TIMebase:MAIN:OFFSet?", "">> >>

\* get_waveform_samples, lines 2689-2721
get_waveform_samples ==
    /\ b_op = "idle"
    /\ \E channel \in Channels, a \in WaveAnswers :
          LET tmp_buff == BlockReply(a.decl)
              dec == DecodeBlock(tmp_buff)
              pre == [points |-> a.points, y_increment |-> a.y.y_increment,
                      y_origin |-> a.y.y_origin, y_reference |-> a.y.y_reference]
              \* an exception of lines 2707-2710 ends the call after the sixth command
              upToData == SubSeq(WaveformCommands(channel), 1, 6)
              samples == Samples(dec.block, pre)
          IN  /\ b_op' = "get_waveform_samples"
              /\ b_decl' = a.decl
              /\ b_buff' = tmp_buff
              /\ b_pre' = [pre EXCEPT !.points = a.points] @@ [timebase |-> a.timebase]
              /\ IF dec.kind # "ok"
                 THEN /\ b_out' = [NoBlockOut EXCEPT !.kind = dec.kind]
                      /\ b_log' = upToData
                 ELSE IF ~PointsOk(Len(dec.block), pre.points)
                 THEN /\ b_out' = [NoBlockOut EXCEPT !.kind = "AssertionError",
                                                       !.block = dec.block]
                      /\ b_log' = upToData
                 ELSE /\ b_out' = [kind |-> "returned", block |-> dec.block,
                                   samples |-> samples,
                                   x_axis |-> XAxis(Len(samples), a.timebase.scale,
                                                    a.timebase.offset)]
                      /\ b_log' = WaveformCommands(channel)
    /\ UNCHANGED <<relayVars, quantVars, concVars, featVars>>

\* the call has returned or raised; the next one may start
BlockReturn ==
    /\ b_op # "idle"
    /\ b_op' = "idle"
    /\ b_buff' = <<>>
    /\ b_decl' = <<>>
    /\ b_pre' = <<>>
    /\ b_out' = <<>>
    /\ b_log' = <<>>
    /\ UNCHANGED <<relayVars, quantVars, concVars, featVars>>

BlockNext ==
    \/ take_screenshot
    \/ get_waveform_samples
    \/ BlockReturn

(***************************************************************************)
(* Two callers (threads) invoking send_command on the same                 *)
(* ProXRRelayModule.  send_command takes no lock, so the steps of the two  *)
(* calls interleave at combus.send and combus.recv.  The board answers the *)
(* frames in the order it received them; the stream socket hands the       *)
(* answers out as one byte stream.                                         *)
(***************************************************************************)

MaxBuffered == 8     \* bytes sent or owed by the board and not yet read

Callers == {1, 2}

\* the calls the two callers make: both expect a response
ConcCalls ==
    {[op |-> "reset", command |-> <<254, 50, 144>>, bytes_back |-> 1],
     [op |-> "get_testcyle_value", command |-> <<254, 50, 145>>, bytes_back |-> 4]}

NoCall == [op |-> "none", command |-> <<>>, bytes_back |-> 0]

\* the board's answer to a frame, each byte marked with the caller it is for
AnswerTo(t) ==
    LET f == DeviceFrame(<<85>>) IN [i \in 1..Len(f) |-> [byte |-> f[i], for |-> t]]

BytesOf(marked) == [i \in 1..Len(marked) |-> marked[i].byte]

ConcIdle ==
    /\ c_pc = [t \in Callers |-> "idle"]
    /\ c_call = [t \in Callers |-> NoCall]
    /\ c_data = [t \in Callers |-> <<>>]
    /\ c_result = [t \in Callers |-> NoResult]
    /\ c_from = [t \in Callers |-> {}]
    /\ combus_out = <<>>
    /\ combus_in = <<>>

\* lines 19-27: caller t builds its frame and hands it to combus.send
CallerSend(t) ==
    /\ c_pc[t] = "idle"
    /\ Len(combus_in) + 4 * Len(combus_out) + 4 <= MaxBuffered
    /\ \E call \in ConcCalls :
          /\ c_call' = [c_call EXCEPT ![t] = call]
          /\ combus_out' = Append(combus_out, [frame |-> Frame(call.command), by |-> t])
    /\ c_pc' = [c_pc EXCEPT ![t] = "awaiting"]
    /\ UNCHANGED <<c_data, c_result, c_from, combus_in>>
    /\ UNCHANGED <<relayVars, quantVars, blockVars, featVars>>

\* the board answers the oldest frame it has not answered yet
BoardAnswers ==
    /\ combus_out # <<>>
    /\ combus_in' = combus_in \o AnswerTo(Head(combus_out).by)
    /\ combus_out' = Tail(combus_out)
    /\ UNCHANGED <<c_pc, c_call, c_data, c_result, c_from>>
    /\ UNCHANGED <<relayVars, quantVars, blockVars, featVars>>

\* lines 29-42: caller t's recv(bytes_back + 3) returns the first k buffered
\* bytes, and the caller validates them
CallerRecv(t) ==
    /\ c_pc[t] = "awaiting"
    /\ combus_in # <<>>
    /\ \E k \in 1..Min(RecvLimit(c_call[t].bytes_back), Len(combus_in)) :
          LET got == SubSeq(combus_in, 1, k)
          IN  /\ c_data' = [c_data EXCEPT ![t] = BytesOf(got)]
              /\ c_from' = [c_from EXCEPT ![t] = {got[i].for : i \in 1..k}]
              /\ c_result' = [c_result EXCEPT ![t] = Validate(BytesOf(got))]
              /\ combus_in' = SubSeq(combus_in, k + 1, Len(combus_in))
    /\ c_pc' = [c_pc EXCEPT ![t] = "done"]
    /\ UNCHANGED <<c_call, combus_out>>
    /\ UNCHANGED <<relayVars, quantVars, blockVars, featVars>>

\* line 29: nothing is buffered when the 0.5 s run out
CallerTimeout(t) ==
    /\ c_pc[t] = "awaiting"
    /\ combus_in = <<>>
    /\ c_result' = [c_result EXCEPT ![t] = Raised("socket.timeout")]
    /\ c_pc' = [c_pc EXCEPT ![t] = "done"]
    /\ UNCHANGED <<c_call, c_data, c_from, combus_out, combus_in>>
    /\ UNCHANGED <<relayVars, quantVars, blockVars, featVars>>

\* caller t has its result; it may call again
CallerReturn(t) ==
    /\ c_pc[t] = "done"
    /\ c_pc' = [c_pc EXCEPT ![t] = "idle"]
    /\ c_call' = [c_call EXCEPT ![t] = NoCall]
    /\ c_data' = [c_data EXCEPT ![t] = <<>>]
    /\ c_result' = [c_result EXCEPT ![t] = NoResult]
    /\ c_from' = [c_from EXCEPT ![t] = {}]
    /\ UNCHANGED <<combus_out, combus_in>>
    /\ UNCHANGED <<relayVars, quantVars, blockVars, featVars>>

Send == \E t \in Callers : CallerSend(t)
RecvTwo == \E t \in Callers : CallerRecv(t)
TimeoutTwo == \E t \in Callers : CallerTimeout(t)
ReturnTwo == \E t \in Callers : CallerReturn(t)

NextTwo ==
    \/ Send
    \/ BoardAnswers
    \/ RecvTwo
    \/ TimeoutTwo
    \/ ReturnTwo

(***************************************************************************)
(* ProXRRelayModule.get_device_features                                    *)
(***************************************************************************)
RECURSIVE BitAnd(_, _)
\* Python's a & b on non-negative ints
BitAnd(a, b) ==
    IF a = 0 \/ b = 0 THEN 0
    ELSE (a % 2) * (b % 2) + 2 * BitAnd(a \div 2, b \div 2)

RECURSIVE HexDigitsAsBits(_)
\* the number whose binary digits are the hexadecimal digits of m (0 or 1 each)
HexDigitsAsBits(m) ==
    IF m = 0 THEN 0 ELSE (IF m % 16 = 0 THEN 0 ELSE 1) + 2 * HexDigitsAsBits(m \div 16)

\* faulty variant: a mask written 0x00010000 is read as 0b00010000
FeatureBit_HexAsBinary(mask, device_id_byte) ==
    BitAnd(IF mask >= 256 THEN HexDigitsAsBits(mask) ELSE mask, device_id_byte) # 0

\* bool(mask & device_id_byte)
FeatureBit(mask, device_id_byte) == BitAnd(mask, device_id_byte) # 0

\* lines 250-279: name, mask literal (as its value) and the device-id byte tested
FeatureTable ==
    << [name |-> "ProXR Controller", mask |-> 1, byte |-> 1],
       [name |-> "AD8", mask |-> 2, byte |-> 1],
       [name |-> "Input Contact Closure Scan", mask |-> 4, byte |-> 1],
       [name |-> "Programmable Potentiometer", mask |-> 8, byte |-> 1],
       [name |-> "ADC", mask |-> 16, byte |-> 1],
       [name |-> "Scratchpad Memory", mask |-> 32, byte |-> 1],
       [name |-> "AVA Security Protocols", mask |-> 64, byte |-> 1],
       [name |-> "Current Monitoring", mask |-> 128, byte |-> 1],
       [name |-> "E3C Commands", mask |-> 1, byte |-> 2],
       [name |-> "Pulsar Light Dimmer", mask |-> 2, byte |-> 2],
       [name |-> "AD8 Relay Activator Event Generator", mask |-> 8, byte |-> 2],
       [name |-> "8-Bit Digital I/O on Port 1", mask |-> 65536, byte |-> 2],
       [name |-> "8-Bit Digital I/O on Port 2", mask |-> 1048576, byte |-> 2],
       [name |-> "Lifetime Counter", mask |-> 16777216, byte |-> 2],
       [name |-> "Fusion Decision Maker Logic", mask |-> 268435456, byte |-> 2],
       [name |-> "Taralist Time Activated Relay Command Set", mask |-> 1, byte |-> 3],
       [name |-> "AD8 Command Set on Port 2", mask |-> 16, byte |-> 3],
       [name |-> "Input Contact Closure Scan on Port 2", mask |-> 256, byte |-> 3],
       [name |-> "Programmable Potentiometer on Port 2", mask |-> 4096, byte |-> 3],
       [name |-> "ADC on Port 2", mask |-> 65536, byte |-> 3],
       [name |-> "Sonar Distance Measurement on Port 1", mask |-> 1048576, byte |-> 3],
       [name |-> "Sonar Distance Measurement on Port 2", mask |-> 16777216, byte |-> 3],
       [name |-> "Fusion Class Controller", mask |-> 268435456, byte |-> 3],
       [name |-> "Internal Bus I2C Communications", mask |-> 65536, byte |-> 4],
       [name |-> "External Bus I2C Communications", mask |-> 1048576, byte |-> 4],
       [name |-> "Dual Communication Ports", mask |-> 16777216, byte |-> 4],
       [name |-> "API Command Set", mask |-> 268435456, byte |-> 4],
       [name |-> "Push Notifications", mask |-> 1, byte |-> 5],
       [name |-> "KFX Key Fob Configuration", mask |-> 65536, byte |-> 5],
       [name |-> "MirW Control Functions", mask |-> 1048576, byte |-> 5] >>

FeatureNames == {FeatureTable[i].name : i \in 1..Len(FeatureTable)}
EntryOf(name) == CHOOSE e \in {FeatureTable[i] : i \in 1..Len(FeatureTable)} : e.name = name

\* the dictionary of lines 249-280 for the five unpacked bytes
Features(ids) ==
    [name \in FeatureNames |-> FeatureBit(EntryOf(name).mask, ids[EntryOf(name).byte])]

\* the five device-id bytes the board may answer: every value of each byte,
\* the other four all clear or all set
IdAnswers ==
    {[k \in 1..5 |-> IF k = pos THEN b ELSE fill] :
        pos \in 1..5, b \in 0..255, fill \in {0, 255}}

\* what send_command(command, 8) may hand back: five bytes, a shorter
\* payload, or None for a rejected frame
FeatureAnswers ==
    {Returned(ids) : ids \in IdAnswers} \cup {Returned(<<1, 0, 0, 0>>), ReturnedNone}

FeatIdle == f_answer = NoResult /\ f_outcome = "none" /\ f_features = <<>>

\* get_device_features, lines 246-280
get_device_features ==
    /\ f_outcome = "none"
    /\ \E answer \in FeatureAnswers :
          /\ f_answer' = answer
          /\ IF answer.kind = "none"            \* line 248 unpacks None
             THEN f_outcome' = "TypeError" /\ f_features' = <<>>
             ELSE IF Len(answer.payload) # 5    \* line 248 unpacks five values
             THEN f_outcome' = "ValueError" /\ f_features' = <<>>
             ELSE f_outcome' = "returned" /\ f_features' = Features(answer.payload)
    /\ UNCHANGED <<relayVars, quantVars, blockVars, concVars>>

\* the caller has the dictionary or the exception
FeatReturn ==
    /\ f_outcome # "none"
    /\ f_answer' = NoResult /\ f_outcome' = "none" /\ f_features' = <<>>
    /\ UNCHANGED <<relayVars, quantVars, blockVars, concVars>>

FeatNext ==
    \/ get_device_features
    \/ FeatReturn

QuantIdle ==
    /\ q_setter = "none" /\ q_requested = 0 /\ q_candidates = <<>>
    /\ q_chosen = 0 /\ q_written = 0 /\ q_outcome = "none" /\ q_env = <<>>
BlockIdle ==
    /\ b_op = "idle" /\ b_buff = <<>> /\ b_decl = <<>> /\ b_pre = <<>>
    /\ b_out = <<>> /\ b_log = <<>>

Init == RelayInit /\ QuantIdle /\ BlockIdle /\ ConcIdle /\ FeatIdle
Next ==
    \/ Call
    \/ Receive
    \/ RecvTimeout
    \/ Return
Spec == Init /\ [][Next]_vars
\* settimeout(0.5) (line 9) bounds every wait in recv: a pending read does not
\* stay pending for ever
SpecLive == Init /\ [][Next]_vars /\ WF_vars(RecvTimeout)
SpecQuant == Init /\ [][QuantNext]_vars
SpecBlock == Init /\ [][BlockNext]_vars
SpecTwo == Init /\ [][NextTwo]_vars
SpecFeatures == Init /\ [][FeatNext]_vars

\* callers that may pass the list of their last call again
NextReuse ==
    \/ Call
    \/ CallAgain
    \/ Receive
    \/ RecvTimeout
    \/ Return
SpecReuse == Init /\ [][NextReuse]_vars

\* __init__ always builds a socket, so its test on lines 10-13 always yields
\* "socket"; lines 24-25 run only for a module whose combus has been replaced
\* by a serial port and whose combus_type says "serial".  InitEither starts
\* from either kind of module.
InitEither ==
    /\ combus_type \in {"socket", "serial"}
    /\ op = "none" /\ cmd_arg = <<>> /\ command = <<>> /\ bytes_back = 0
    /\ wire = <<>> /\ reads = 0 /\ data = <<>> /\ result = NoResult /\ pc = "idle"
    /\ held = NoHeld
    /\ QuantIdle /\ BlockIdle /\ ConcIdle /\ FeatIdle
SpecEither == InitEither /\ [][Next]_vars

(***************************************************************************)
(* Claims about ProXRRelayModule.send_command, checked under Spec          *)
(***************************************************************************)

\* the well-formedness of a received byte string as the specification words it
SpecWellFormed(d) ==
    /\ Len(d) >= 2
    /\ d[1] = 170
    /\ d[2] = Len(d) - 3
    /\ d[Len(d)] = SumSeq(SubSeq(d, 1, Len(d) - 1)) % 256

\* a socket call that expected a response and whose read returned
SocketReadDone ==
    pc = "done" /\ combus_type = "socket" /\ bytes_back > 0 /\ reads = 1

\* C1: on the socket path with bytes_back > 0, for every non-empty received
\* byte string d, send_command returns a payload list iff d[0] = 0xAA,
\* d[1] = len(d) - 3 and the last byte is the sum of the preceding bytes
\* mod 256; the payload is then exactly d[2 .. len(d)-2]; otherwise it returns
\* None and no part of d, and fewer than 3 bytes never yield a payload.
C1_ResponseValidation ==
    (SocketReadDone /\ data # <<>>) =>
        /\ result.kind \in {"payload", "none"}
        /\ (result.kind = "payload") <=> SpecWellFormed(data)
        /\ result.kind = "payload" => result.payload = SubSeq(data, 3, Len(data) - 1)
        /\ result.kind = "none" => result.payload = <<>>
        /\ Len(data) < 3 => result.kind = "none"

C1_Witness ==
    /\ SocketReadDone
    /\ data = <<170, 2, 85, 1, 2>>
    /\ result = [kind |-> "payload", payload |-> <<85, 1>>]

\* C2: for every payload p of byte values with len(p) <= 255, send_command
\* transmits exactly [0xAA, len(p)] ++ p ++ [c], c = (0xAA + len(p) + sum(p))
\* mod 256; payload [254, 140, 85, 1] goes out as [0xAA, 4, 254, 140, 85, 1, 142].
C2_FrameEncoding ==
    (pc \in {"awaiting", "done"}
        /\ Len(cmd_arg) <= 255 /\ \A i \in 1..Len(cmd_arg) : cmd_arg[i] \in 0..255) =>
        /\ wire = << <<170, Len(cmd_arg)>> \o cmd_arg
                        \o <<(170 + Len(cmd_arg) + SumSeq(cmd_arg)) % 256>> >>
        /\ wire[1][2] = Len(wire[1]) - 3
        /\ wire[1][Len(wire[1])] = SumSeq(SubSeq(wire[1], 1, Len(wire[1]) - 1)) % 256
        /\ cmd_arg = <<254, 140, 85, 1>> => wire[1] = <<170, 4, 254, 140, 85, 1, 142>>

C2_Witness ==
    /\ op = "set_all_relays_by_bank"
    /\ pc = "awaiting"
    /\ wire = << <<170, 4, 254, 140, 85, 1, 142>> >>

\* d differs in exactly one byte from a well-formed response frame
SingleByteCorrupted(d) ==
    \E i \in 1..Len(d), v \in 0..255 :
        v # d[i] /\ SpecWellFormed([d EXCEPT ![i] = v])

\* C3: every replacement of exactly one byte (handshake, length, payload or
\* checksum) of a well-formed response frame by a different byte value makes
\* send_command return None instead of a payload.
C3_SingleByteCorruptionDetected ==
    (SocketReadDone /\ data # <<>> /\ SingleByteCorrupted(data)) =>
        result = [kind |-> "none", payload |-> <<>>]

\* the example frame [0xAA, 1, 85, checksum] with its payload byte replaced
C3_Witness ==
    /\ SocketReadDone
    /\ data = <<170, 1, 84, 0>>
    /\ SingleByteCorrupted(data)
    /\ result.kind = "none"

WriteOnlyOps ==
    {"enable_all_devices", "disable_all_devices", "enable_device", "disable_device",
     "enable_device_only", "disable_device_only", "store_device_number"}

\* the payload handed to send_command is too long for the length byte or
\* holds a value that is no byte
Unsendable(p) == Len(p) > 255 \/ \E i \in 1..Len(p) : p[i] \notin 0..255

\* C4: the write-only wrappers pass bytes_back = 0, and a call with
\* bytes_back = 0 (its command being a list of at most 255 byte values)
\* transmits its frame, never waits for or reads a response, and returns [].
C4_WriteOnly ==
    /\ op \in WriteOnlyOps => bytes_back = 0
    /\ (pc # "idle" /\ combus_type = "socket" /\ bytes_back = 0
            /\ ~Unsendable(cmd_arg)) =>
        /\ pc = "done"
        /\ Len(wire) = 1
        /\ reads = 0
        /\ data = <<>>
        /\ result = [kind |-> "payload", payload |-> <<>>]

C4_Witness ==
    /\ op = "enable_all_devices"
    /\ pc = "done"
    /\ wire = << <<170, 2, 254, 248, 162>> >>
    /\ reads = 0
    /\ result = [kind |-> "payload", payload |-> <<>>]

\* C11: a well-formed response frame is returned in full even when it carries
\* fewer payload bytes than bytes_back: the length of the returned payload is
\* the frame's declared length byte, not bytes_back (get_testcyle_value passes
\* bytes_back = 4 and returns [85]; get_device_features passes bytes_back = 8
\* and receives the 5 payload bytes it unpacks).
C11_PayloadLengthIsDeclaredLength ==
    (SocketReadDone /\ data # <<>> /\ SpecWellFormed(data)) =>
        /\ result.kind = "payload"
        /\ Len(result.payload) = data[2]
        /\ result.payload = SubSeq(data, 3, 2 + data[2])
        /\ (op = "get_testcyle_value" /\ data = <<170, 1, 85, 0>>) =>
              bytes_back = 4 /\ result.payload = <<85>>
        /\ (op = "get_device_features" /\ data[2] = 5) =>
              bytes_back = 8 /\ Len(result.payload) = 5

\* get_device_features asks for 8 + 3 bytes and is answered with a frame of
\* 5 payload bytes
C11_Witness ==
    /\ SocketReadDone
    /\ op = "get_device_features"
    /\ bytes_back = 8
    /\ data = <<170, 5, 1, 0, 0, 0, 0, 176>>
    /\ result = [kind |-> "payload", payload |-> <<1, 0, 0, 0, 0>>]

\* C12: when no response arrives before the 0.5 s transport timeout set at
\* connect time, send_command does not block indefinitely: the pending read
\* ends, and it ends with a timeout outcome (socket.timeout raised out of the
\* call, nothing read, no payload) that differs from the outcome for a
\* malformed frame (bad handshake, length mismatch, bad checksum), which is
\* the return value None.
C12_TimeoutEndsTheCall ==
    /\ [][(pc = "awaiting" /\ combus_type = "socket" /\ pc' = "done" /\ data' = <<>>) =>
            /\ result'.kind \in {"socket.timeout", "IndexError"}
            /\ result'.payload = <<>>]_vars
    /\ [](result.kind = "socket.timeout" => pc = "done" /\ reads = 1 /\ data = <<>>)
    /\ []((SocketReadDone /\ data # <<>> /\ ~SpecWellFormed(data)) =>
            result = [kind |-> "none", payload |-> <<>>])
    /\ (pc = "awaiting") ~> (pc = "done")

\* reset waits for its one-byte answer and none arrives
C12_Witness ==
    /\ op = "reset"
    /\ pc = "done"
    /\ reads = 1
    /\ data = <<>>
    /\ result = [kind |-> "socket.timeout", payload |-> <<>>]

\* C10 as stated: with bytes_back > 0, a read of fewer than bytes_back + 3
\* bytes ends the call with a timeout error and no payload.
C10_ShortReadIsTimeout ==
    (SocketReadDone /\ Len(data) < bytes_back + 3) =>
        result = [kind |-> "socket.timeout", payload |-> <<>>]

\* C10 amended: with bytes_back > 0, send_command ends with a timeout
\* (socket.timeout raised by recv) and no payload when no byte arrives in
\* time; a short read of 1 .. bytes_back + 2 bytes is no timeout: the bytes
\* are validated as a frame, and the call returns their payload when they are
\* well-formed and None otherwise.
C10_ShortReadIsValidated ==
    SocketReadDone =>
        /\ result.kind = "socket.timeout" => data = <<>> /\ result.payload = <<>>
        /\ (data # <<>> /\ Len(data) < bytes_back + 3) =>
              result = IF SpecWellFormed(data)
                       THEN [kind |-> "payload", payload |-> SubSeq(data, 3, Len(data) - 1)]
                       ELSE [kind |-> "none", payload |-> <<>>]

\* get_testcyle_value asks for 4 + 3 bytes and is answered with 4
C10_Witness ==
    /\ SocketReadDone
    /\ op = "get_testcyle_value"
    /\ bytes_back = 4
    /\ data = <<170, 1, 85, 0>>
    /\ result = [kind |-> "payload", payload |-> <<85>>]

(***************************************************************************)
(* Claims about the quantizer, checked under SpecQuant                     *)
(***************************************************************************)

\* distance of candidate i of the last call from the requested value
QDist(i) == Abs(q_candidates[i] - q_requested)

\* C5: the value chosen by min(C, key=|c - x|) is an element of C, no element
\* of C is strictly closer to x, and among equidistant candidates the first
\* in C's order is chosen; for C = [1, 3] and x = 2 the result is 1.
C5_Quantizer ==
    (q_setter # "none" /\ q_candidates # <<>>) =>
        /\ \E i \in 1..Len(q_candidates) : q_candidates[i] = q_chosen
        /\ \A i \in 1..Len(q_candidates) : QDist(i) >= Abs(q_chosen - q_requested)
        /\ \A i \in 1..Len(q_candidates) :
              (\A j \in 1..Len(q_candidates) : QDist(i) < QDist(j) \/ (QDist(i) = QDist(j) /\ i <= j))
                  => q_chosen = q_candidates[i]
        /\ (q_candidates = <<1, 3>> /\ q_requested = 2) => q_chosen = 1

\* the candidates 3 and 1 are both at distance 1 from 2; 3 comes first
C5_Witness ==
    /\ q_setter = "quantize"
    /\ q_candidates = <<3, 1>>
    /\ q_requested = 2
    /\ q_chosen = 3

\* C19 as stated: every DS1000Z setter that computes a candidate set for a
\* quantized setting writes a command whose numeric value is a member of
\* that candidate set, whatever value the caller requested.
C19_WrittenIsCandidate ==
    (q_setter \notin {"none", "quantize"} /\ q_candidates # <<>> /\ q_outcome = "written") =>
        \E i \in 1..Len(q_candidates) : q_candidates[i] = q_written

\* the range list the claim names: every base range times the probe ratio of
\* the addressed channel, in units of 0.000064 V
RangesTimesRatio(ratio) == [i \in 1..Len(base_ranges) |-> 125 * base_ranges[i] * ratio]

\* C22 as stated: set_channel_range(r, channel) writes the value nearest to r
\* from the base range list [0.008, ..., 80] with every entry multiplied by
\* the probe ratio of the addressed channel; at probe ratio 1 a request of
\* 0.8 or 8 (12500 or 125000 units) is written unchanged.
C22_RangeTimesProbeRatio ==
    q_setter = "set_channel_range" =>
        /\ q_outcome = "written"
        /\ q_written = Quantize(q_requested, RangesTimesRatio(q_env.ratio[q_env.channel]))
        /\ (q_env.ratio[q_env.channel] = 1 /\ q_requested \in {12500, 125000}) =>
              q_written = q_requested

\* c is a member of the list L nearest to d
NearestIn(c, d, L) ==
    /\ \E i \in 1..Len(L) : L[i] = c
    /\ \A i \in 1..Len(L) : Abs(L[i] - d) >= Abs(c - d)

\* C23: set_memory_depth(d) with a numeric d, called while the scope is
\* running, writes the member nearest to d of [12000, 120000, 1200000,
\* 12000000] when at most one channel is shown, of [6000, 60000, 600000,
\* 6000000] when exactly two are shown, and of [3000, 30000, 300000, 3000000]
\* when three or four are shown; so with 1, 2 or 4 channels shown a request
\* of 12*10^e, 6*10^e or 3*10^e (e = 3..6) is written unchanged; "AUTO" is
\* written as is.
C23_MemoryDepth ==
    (q_setter = "set_memory_depth" /\ q_env.running) =>
        /\ q_env.numeric =>
              /\ q_outcome = "written"
              /\ q_env.num_channels_shown <= 1 =>
                    NearestIn(q_written, q_requested, <<12000, 120000, 1200000, 12000000>>)
              /\ q_env.num_channels_shown = 2 =>
                    NearestIn(q_written, q_requested, <<6000, 60000, 600000, 6000000>>)
              /\ q_env.num_channels_shown \in {3, 4} =>
                    NearestIn(q_written, q_requested, <<3000, 30000, 300000, 3000000>>)
              /\ (q_env.num_channels_shown = 1
                      /\ q_requested \in {12000, 120000, 1200000, 12000000}) =>
                    q_written = q_requested
              /\ (q_env.num_channels_shown = 2
                      /\ q_requested \in {6000, 60000, 600000, 6000000}) =>
                    q_written = q_requested
              /\ (q_env.num_channels_shown = 4
                      /\ q_requested \in {3000, 30000, 300000, 3000000}) =>
                    q_written = q_requested
        /\ (~q_env.numeric /\ q_requested = "AUTO") =>
              q_outcome = "written" /\ q_written = "AUTO"

\* two channels shown, 6000000 points requested
C23_Witness ==
    /\ q_setter = "set_memory_depth"
    /\ q_env = [running |-> TRUE, num_channels_shown |-> 2, numeric |-> TRUE]
    /\ q_requested = 6000000
    /\ q_outcome = "written"
    /\ q_written = 6000000

\* C27: set_timebase_scale writes a :TIMebase:MAIN:SCALe command only when
\* the instrument reports timebase mode MAIN or ROLL; when it reports any
\* other mode (XY) the call fails with an error before anything is written,
\* leaving the instrument's timebase scale unchanged.
C27_WritesOnlyInMainOrRoll ==
    q_setter = "set_timebase_scale" =>
        /\ q_outcome = "written" <=> q_env.timebase_mode \in {"MAIN", "ROLL"}
        /\ q_env.timebase_mode \notin {"MAIN", "ROLL"} =>
              /\ q_outcome \in {"UnboundLocalError", "NameError"}
              /\ q_candidates = <<>>
              /\ q_written = 0

\* in mode XY the call raises and writes nothing
C27_Witness ==
    /\ q_setter = "set_timebase_scale"
    /\ q_env = [timebase_mode |-> "XY"]
    /\ q_outcome = "UnboundLocalError"
    /\ q_candidates = <<>>

(***************************************************************************)
(* Claims about get_device_features, checked under SpecFeatures            *)
(***************************************************************************)
\* the features tested with a mask literal of 0x00000100 or more
HighMaskFeatures ==
    {"8-Bit Digital I/O on Port 1", "8-Bit Digital I/O on Port 2", "Lifetime Counter",
     "Fusion Decision Maker Logic", "Input Contact Closure Scan on Port 2",
     "Programmable Potentiometer on Port 2", "ADC on Port 2",
     "Sonar Distance Measurement on Port 1", "Sonar Distance Measurement on Port 2",
     "Fusion Class Controller", "Internal Bus I2C Communications",
     "External Bus I2C Communications", "Dual Communication Ports", "API Command Set",
     "KFX Key Fob Configuration", "MirW Control Functions"}

\* C29: in get_device_features, for all device-id byte values in 0..255,
\* every feature whose mask literal is 0x00000100 or larger is reported False
\* whatever the device answered; only the features with masks 1, 2, 4, 8, 16,
\* 32, 64, 128 can ever be reported True.
C29_HighMasksNeverTrue ==
    f_outcome = "returned" =>
        /\ DOMAIN f_features = FeatureNames
        /\ \A name \in HighMaskFeatures : f_features[name] = FALSE
        /\ \A name \in DOMAIN f_features :
              f_features[name] =>
                  /\ name \notin HighMaskFeatures
                  /\ EntryOf(name).mask \in {1, 2, 4, 8, 16, 32, 64, 128}

\* every device-id byte is 255: the low-mask features are True, the others False
C29_Witness ==
    /\ f_outcome = "returned"
    /\ f_answer.payload = <<255, 255, 255, 255, 255>>
    /\ f_features["ProXR Controller"]
    /\ f_features["AD8 Command Set on Port 2"]
    /\ ~f_features["API Command Set"]
    /\ ~f_features["8-Bit Digital I/O on Port 1"]

(***************************************************************************)
(* Claims about block decoding and the waveform transform, checked under   *)
(* SpecBlock                                                               *)
(***************************************************************************)

\* the digit count L and the total length 2 + L + N the reply's header declares
DeclaredL == Len(Digits(b_decl.N))
DeclaredTotal == 2 + DeclaredL + b_decl.N

\* the call has decoded a buffer whose header, with the digits of N as its
\* length field, arrived whole
HeaderArrived ==
    b_op # "idle" /\ b_decl.field = "digits" /\ Len(b_buff) >= 2 + DeclaredL

\* C6: for N in {0, 1, 9, 10, 1199, 1000000}, the decoding steps of
\* take_screenshot / get_waveform_samples applied to '#' + L + digits of N +
\* payload, with or without trailing terminator bytes, extract exactly the
\* payload: the bytes at positions [2+L, 2+L+N), no header or trailing byte.
C6_BlockRoundTrip ==
    (HeaderArrived /\ Len(b_buff) = DeclaredTotal + b_decl.trail) =>
        /\ b_out.kind \in {"image_open", "returned", "AssertionError"}
        /\ Len(b_out.block) = b_decl.N
        /\ b_out.block = Pay(b_decl.N, b_decl.seed)
        /\ b_out.block = SubSeq(b_buff, 3 + DeclaredL, 2 + DeclaredL + b_decl.N)

\* a 1199-byte payload followed by a terminator
C6_Witness ==
    /\ b_op = "get_waveform_samples"
    /\ b_decl = [N |-> 1199, seed |-> 3, trail |-> 1, cut |-> 0, field |-> "digits"]
    /\ Len(b_buff) = 1206
    /\ b_buff[1206] = 10
    /\ b_out.kind = "returned"
    /\ Len(b_out.block) = 1199
    /\ b_out.block[1199] = b_buff[1205]

\* C7 as stated: whenever the buffer holds fewer than 2+L+N bytes, decoding
\* fails and a payload shorter than N is never handed on to image decoding or
\* to sample unpacking.
C7_TruncationIsAnError ==
    (HeaderArrived /\ Len(b_buff) < DeclaredTotal) =>
        b_out.kind \notin {"image_open", "returned"}

\* C8: get_waveform_samples returns v_i = (s_i - y_origin - y_reference) *
\* y_increment for i = 0..n-1, in the order of the raw samples, n values in
\* all; with y_origin = 0, y_reference = 0, y_increment = 0.04 the raw byte
\* 128 maps to 5.12 (512 in 1/100).
C8_ValueTransform ==
    (b_op = "get_waveform_samples" /\ b_out.kind = "returned") =>
        /\ Len(b_out.samples) = Len(b_out.block)
        /\ \A i \in 1..Len(b_out.block) :
              /\ b_out.samples[i] =
                    (b_out.block[i] - b_pre.y_origin - b_pre.y_reference) * b_pre.y_increment
              /\ (b_pre.y_origin = 0 /\ b_pre.y_reference = 0 /\ b_pre.y_increment = 4
                    /\ b_out.block[i] = 128) => b_out.samples[i] = 512

\* byte 128 is the 91st sample of a 1200-point capture
C8_Witness ==
    /\ b_op = "get_waveform_samples"
    /\ b_out.kind = "returned"
    /\ Len(b_out.samples) = 1200
    /\ b_pre.y_origin = 0 /\ b_pre.y_reference = 0 /\ b_pre.y_increment = 4
    /\ b_out.block[91] = 128
    /\ b_out.samples[91] = 512

\* the number of payload bytes the decoding of b_buff yields
DecodedCount == Min(b_decl.N, Len(b_buff) - 2 - DeclaredL)

\* C9: if the number of decoded payload bytes differs from the preamble's
\* point count, get_waveform_samples fails with an error and returns neither
\* x-axis nor samples; what it returns is never cut or padded to that count.
C9_PointCountCheck ==
    (b_op = "get_waveform_samples" /\ HeaderArrived) =>
        /\ DecodedCount # b_pre.points =>
              /\ b_out.kind = "AssertionError"
              /\ b_out.samples = <<>>
              /\ b_out.x_axis = <<>>
        /\ b_out.kind = "returned" =>
              /\ Len(b_out.block) = DecodedCount
              /\ Len(b_out.samples) = DecodedCount
              /\ Len(b_out.x_axis) = DecodedCount

\* 1200 bytes arrive, the preamble announced 1201
C9_Witness ==
    /\ b_op = "get_waveform_samples"
    /\ b_decl.N = 1200 /\ b_decl.cut = 0
    /\ b_pre.points = 1201
    /\ Len(b_out.block) = 1200
    /\ b_out.kind = "AssertionError"

\* the L bytes that follow the digit-count byte of the buffer
LengthFieldRead == SubSeq(b_buff, 3, 2 + (b_buff[2] - 48))

\* a call whose buffer holds '#', a digit L and at least L more bytes
LengthFieldArrived ==
    /\ b_op # "idle"
    /\ Len(b_buff) >= 2
    /\ IsDigit(b_buff[2])
    /\ Len(b_buff) >= 2 + (b_buff[2] - 48)

\* a non-empty string of ASCII decimal digits
IsDigitString(f) == f # <<>> /\ \A i \in 1..Len(f) : IsDigit(f[i])

\* C13 as stated: if the L bytes following the digit-count byte are not a
\* string of ASCII decimal digits denoting a non-negative integer, block
\* decoding in take_screenshot and get_waveform_samples fails with an
\* invalid-length error and extracts no payload.
C13_InvalidLengthIsAnError ==
    (LengthFieldArrived /\ ~IsDigitString(LengthFieldRead)) =>
        /\ b_out.kind \in {"ValueError", "UnicodeDecodeError"}
        /\ b_out.block = <<>>

\* C14: quantizing is idempotent, quantize(quantize(x, C), C) = quantize(x, C),
\* and a requested value that is already in C is written unchanged:
\* set_averages(2^i) writes 2^i for i = 1..9, and set_channel_scale(10) and
\* set_channel_scale(1) write 10 and 1 at probe ratio 1 (1000000 and 100000
\* in 1e-5 V, the ratio being 100 in 1/100).
C14_QuantizeIdempotent ==
    (q_setter # "none" /\ q_candidates # <<>>) =>
        /\ Quantize(q_chosen, q_candidates) = q_chosen
        /\ (\E i \in 1..Len(q_candidates) : q_candidates[i] = q_requested) =>
              q_written = q_requested
        /\ (q_setter = "set_averages"
                /\ q_requested \in {2, 4, 8, 16, 32, 64, 128, 256, 512}) =>
              q_written = q_requested
        /\ (q_setter = "set_channel_scale" /\ q_candidates = possible_scales(100)
                /\ q_requested \in {1000000, 100000}) =>
              q_written = q_requested

\* set_channel_scale(10) at probe ratio 1
C14_Witness ==
    /\ q_setter = "set_channel_scale"
    /\ q_candidates = possible_scales(100)
    /\ q_requested = 1000000
    /\ q_written = 1000000

\* a get_waveform_samples call that returned its pair (x_axis, samples)
WaveformReturned == b_op = "get_waveform_samples" /\ b_out.kind = "returned"

\* C15: for every n >= 1, even or odd, get_waveform_samples returns an x-axis
\* with len(x_axis) = len(samples) = n whose consecutive values differ by
\* timebase_scale / 10 and whose k-th value (k = 0..n-1) is
\* (k + floor(-n/2)) * timebase_scale / 10 + timebase_offset; values are in
\* tenths, and floor(-n/2) = -ceil(n/2).
C15_XAxisLengthAndValues ==
    (WaveformReturned /\ Len(b_out.samples) >= 1) =>
        LET n == Len(b_out.samples)
            ts == b_pre.timebase.scale
            to == b_pre.timebase.offset
        IN  /\ Len(b_out.x_axis) = n
            /\ \A k \in 0..(n - 1) :
                  b_out.x_axis[k + 1] = (k - ((n + 1) \div 2)) * ts + 10 * to
            /\ \A k \in 1..(n - 1) : b_out.x_axis[k + 1] - b_out.x_axis[k] = ts

\* an odd point count: 1199 samples at timebase scale 5 and offset -3
C15_Witness ==
    /\ WaveformReturned
    /\ Len(b_out.samples) = 1199
    /\ Len(b_out.x_axis) = 1199
    /\ b_pre.timebase = [scale |-> 5, offset |-> -3]
    /\ b_out.x_axis[1] = -3030
    /\ b_out.x_axis[1199] = 2960

\* a returned capture of 1200 samples at a positive timebase scale
Returned1200 ==
    WaveformReturned /\ Len(b_out.samples) = 1200 /\ b_pre.timebase.scale > 0

\* v is a value of the returned x-axis
OnAxis(v) == \E j \in 1..Len(b_out.x_axis) : b_out.x_axis[j] = v

\* C16 as stated: for n = 1200 samples and a positive timebase_scale the
\* x-axis has exactly 1200 points, is strictly increasing, and with
\* timebase_offset = 0 holds -x for every value x it holds.
C16_XAxisSymmetric ==
    Returned1200 =>
        /\ Len(b_out.x_axis) = 1200
        /\ \A k \in 1..1199 : b_out.x_axis[k] < b_out.x_axis[k + 1]
        /\ b_pre.timebase.offset = 0 =>
              \A k \in 1..1200 : OnAxis(-b_out.x_axis[k])

\* C16 amended: for n = 1200 samples and a positive timebase_scale the x-axis
\* has exactly 1200 points and is strictly increasing; with
\* timebase_offset = 0 it runs from -600 * timebase_scale / 10 to
\* 599 * timebase_scale / 10 and holds 0: it holds -x for every value x it
\* holds except the first, -600 * timebase_scale / 10, whose mirror image
\* 600 * timebase_scale / 10 is not on the axis.
C16_XAxisHalfOpen ==
    Returned1200 =>
        /\ Len(b_out.x_axis) = 1200
        /\ \A k \in 1..1199 : b_out.x_axis[k] < b_out.x_axis[k + 1]
        /\ b_pre.timebase.offset = 0 =>
              /\ b_out.x_axis[1] = -600 * b_pre.timebase.scale
              /\ b_out.x_axis[601] = 0
              /\ b_out.x_axis[1200] = 599 * b_pre.timebase.scale
              /\ ~OnAxis(-b_out.x_axis[1])
              /\ \A k \in 2..1200 : OnAxis(-b_out.x_axis[k])

\* 1200 samples at timebase scale 1 and offset 0
C16_Witness ==
    /\ Returned1200
    /\ b_pre.timebase = [scale |-> 1, offset |-> 0]
    /\ b_out.x_axis[1] = -600
    /\ b_out.x_axis[1200] = 599

\* C24: for a full-screen 1200-point capture the synthesized x-axis covers the
\* 12 horizontal divisions of the display: the distance between its last and
\* first value does not exceed 12 * timebase_scale (120 * timebase_scale in
\* the tenths the axis is kept in).
C24_AxisSpansTwelveDivisions ==
    Returned1200 =>
        b_out.x_axis[1200] - b_out.x_axis[1] <= 120 * b_pre.timebase.scale

\* the one read of a socket call returned the frame the call had sent
EchoReceived ==
    /\ pc = "done" /\ combus_type = "socket"
    /\ Len(wire) = 1 /\ reads = 1 /\ data = wire[1]

\* C25: relay encode/decode round trip: for every payload p with
\* len(p) <= 255, the frame that send_command transmits for p, when fed back
\* as the received bytes of a response, passes the socket-path validation and
\* yields exactly p.
C25_RoundTrip ==
    (EchoReceived /\ Len(cmd_arg) <= 255) => result = Returned(cmd_arg)

\* the longest payload, 255 bytes, comes back whole
C25_Witness ==
    /\ EchoReceived
    /\ Len(cmd_arg) = 255
    /\ Len(data) = 258
    /\ result = Returned(cmd_arg)

\* C28: an oversized or out-of-range command never reaches the wire: for a
\* payload of more than 255 bytes, or one containing a value outside 0..255,
\* send_command on the socket path fails before any byte is transmitted, so
\* no frame whose length byte differs from its payload length is ever sent.
C28_UnsendableNeverSent ==
    (pc # "idle" /\ combus_type = "socket") =>
        /\ Unsendable(cmd_arg) =>
              /\ wire = <<>>
              /\ reads = 0
              /\ result = Raised("ValueError")
        /\ \A i \in 1..Len(wire) :
              /\ wire[i][2] = Len(wire[i]) - 3
              /\ \A j \in 1..Len(wire[i]) : wire[i][j] \in 0..255

\* a payload of 256 bytes is refused with nothing sent
C28_Witness ==
    /\ pc = "done" /\ combus_type = "socket"
    /\ Len(cmd_arg) = 256
    /\ wire = <<>>
    /\ result = Raised("ValueError")

\* the command words in the order the claim gives them
FixedOrder ==
    <<":WAV:SOUR", ":WAV:FORM", ":WAV:PRE?", ":WAV:STAR", ":WAV:STOP", ":WAV:DATA?",
      ":TIMebase:MAIN:SCALe?", ":TIMebase:MAIN:OFFSet?">>

\* C26: get_waveform_samples issues its instrument commands in one fixed
\* order on every call: set waveform source, set format BYTE, query the
\* preamble, set waveform start to 1, set waveform stop to 1200, query the
\* waveform data, query the timebase scale, query the timebase offset (a call
\* that raises on the data block stops after the data query); in particular
\* the preamble is read before the start/stop window is set and before the
\* data is read.
C26_FixedCommandOrder ==
    b_op = "get_waveform_samples" =>
        /\ Len(b_log) \in {6, 8}
        /\ \A i \in 1..Len(b_log) : b_log[i][1] = FixedOrder[i]
        /\ b_log[1][2] \in {"CHAN1", "CHAN2", "CHAN3", "CHAN4"}
        /\ b_log[2][2] = "BYTE" /\ b_log[4][2] = "1" /\ b_log[5][2] = "1200"
        /\ WaveformReturned => Len(b_log) = 8
        /\ \A i, j \in 1..Len(b_log) :
              (b_log[i][1] = ":WAV:PRE?"
                  /\ b_log[j][1] \in {":WAV:STAR", ":WAV:STOP", ":WAV:DATA?"}) => i < j

\* a returned capture has issued all eight commands, the preamble third
C26_Witness ==
    /\ WaveformReturned
    /\ Len(b_log) = 8
    /\ b_log[3] = <<":WAV:PRE?", "">>
    /\ b_log[8] = <<":TIMebase:MAIN:OFFSet?", "">>

\* C18 as stated: every send_command call performs exactly one transmit
\* followed by at most one transport read, passes Idle -> FrameSent ->
\* AwaitingResponse and ends in exactly one of Validated, Rejected or
\* TimedOut.
C18_EveryCallAwaitsAResponse ==
    pc = "done" =>
        /\ Len(wire) = 1
        /\ reads = 1
        /\ result.kind \in {"payload", "none", "socket.timeout"}

\* one step of a call, as the amended claim allows it
C18_Step ==
    \/ /\ pc = "idle" /\ pc' = "awaiting"          \* frame sent, response awaited
       /\ bytes_back' > 0 /\ Len(wire') = 1 /\ reads' = 0
    \/ /\ pc = "idle" /\ pc' = "done" /\ reads' = 0
       /\ \/ /\ bytes_back' = 0 /\ Len(wire') = 1  \* write-only: frame sent, [] returned
             /\ result' = [kind |-> "payload", payload |-> <<>>]
          \/ /\ Len(wire') = 0                      \* ValueError before any transmit
             /\ result'.kind = "ValueError"
             /\ \E i \in 1..Len(command') : command'[i] \notin 0..255
    \/ /\ pc = "awaiting" /\ pc' = "done"          \* the one read
       /\ wire' = wire /\ reads = 0 /\ reads' = 1
       /\ result'.kind \in {"payload", "none", "socket.timeout", "IndexError"}
    \/ /\ pc = "done" /\ pc' = "idle"              \* the call is over

\* C18 amended: a send_command call transmits its frame at most once and
\* reads at most once, and never retries.  A command of more than 255 bytes
\* or holding a value outside 0..255 (its framed list then holds a value that
\* is no byte) ends with ValueError before anything is transmitted.  Otherwise the
\* frame is transmitted exactly once; with bytes_back = 0 the call returns []
\* without awaiting a response; with bytes_back > 0 it goes Idle -> FrameSent
\* -> AwaitingResponse, makes exactly one read and ends in exactly one of
\* Validated (payload), Rejected (None), TimedOut (socket.timeout) or an
\* IndexError when the read returns no bytes because the peer closed.  After
\* any outcome the frame is not transmitted again and no further read is
\* made within that call.
C18_NoRetryStateMachine ==
    /\ [](Len(wire) <= 1 /\ reads <= 1 /\ reads <= Len(wire))
    /\ [][C18_Step]_vars
    /\ []((pc = "done" /\ reads = 1) =>
            result.kind \in {"payload", "none", "socket.timeout", "IndexError"})
    /\ []((pc = "done" /\ reads = 0 /\ Len(wire) = 1) => bytes_back = 0)

\* reset is answered with a frame whose checksum is wrong: Rejected after one
\* transmit and one read
C18_Witness ==
    /\ op = "reset"
    /\ pc = "done"
    /\ wire = << <<170, 3, 254, 50, 144, 109>> >>
    /\ reads = 1
    /\ data = <<170, 1, 85, 1>>
    /\ result = [kind |-> "none", payload |-> <<>>]

(***************************************************************************)
(* Claims about callers that reuse a list, checked under SpecReuse         *)
(***************************************************************************)

\* a call made with the list object of the call before it
CalledAgain == pc # "idle" /\ held # NoHeld

\* C21 as stated: send_command leaves the caller's command list unchanged:
\* after the call the list object still holds only the original payload
\* bytes, so passing the same list object twice transmits the same frame
\* both times.
C21_CommandListUnchanged ==
    /\ pc = "done" => command = cmd_arg
    /\ (CalledAgain /\ wire # <<>>) => wire = held.sent

(***************************************************************************)
(* Claims about the two transports, checked under SpecEither               *)
(***************************************************************************)

C17_OneOutstandingCommand ==
    /\ ~(c_pc[1] = "awaiting" /\ c_pc[2] = "awaiting")
    /\ \A t \in Callers :
          (c_pc[t] = "done" /\ c_data[t] # <<>>) => c_from[t] = {t}

====
